---- MODULE Spec2Model ----
(***************************************************************************)
(* ActivityBoard: the DOMContentLoaded handler of src/static/app.js.       *)
(*                                                                         *)
(* The page is a single-threaded event loop.  Every action below is one    *)
(* run-to-completion task of that loop: a user event handler up to its     *)
(* first await, the continuation of an async function after an await, or   *)
(* a setTimeout callback.  The server and the transport are external: the  *)
(* outcome of every await (network failure, status, body) is chosen        *)
(* nondeterministically when the await completes.                          *)
(*                                                                         *)
(* JSON values are held in parsed form: an object is the sequence of its   *)
(* entries in Object.entries order.  Request URLs are held as their        *)
(* (method, activity, email) components.                                   *)
(***************************************************************************)
EXTENDS Integers, Sequences, FiniteSets, TLC

(* ---------------------------- bounds ----------------------------------- *)

\* Largest number of activities in one GET /activities response.
MaxActivities == 2
\* Largest number of participants of one activity in a response.
MaxParticipants == 3
\* Largest max_participants value of an activity in a response.
MaxCapacity == 2
\* Number of mutating requests (signup, unregister) issued in one run.
MaxMutations == 1

(* ------------------------- program constants --------------------------- *)

\* setTimeout delays, in ms.
UnregisterHideDelay == 3000
SignupHideDelay == 5000

\* The markup's initial content of the list area, cleared at line 14.
LoadingNotice == "loading message"
FailureNotice == "Failed to load activities. Please try again later."
NoParticipantsText == "No participants yet - be the first to sign up!"
SpotsSuffix == " spots left"
UnregisterFallback == "Failed to unregister"
UnregisterNetworkError == "Failed to unregister. Please try again."
SignupFallback == "An error occurred"
SignupNetworkError == "Failed to sign up. Please try again."

(* ------------------------- input domains ------------------------------- *)

NamePool == <<"Chess Club", "Art Club", "Drama Club", "Math Club">>
Names == {NamePool[i] : i \in 1..MaxActivities}
\* The participants of an activity, as the server lists them: one email
\* occurs twice.
Roster == <<"a@x.com", "b@x.com", "a@x.com", "c@x.com">>
Emails == {Roster[i] : i \in 1..Len(Roster)}
\* What the user may have typed into the email field.
FormEmails == {"a@x.com"}
\* The texts a server response may carry as message or detail; "" is the
\* empty string, which JavaScript's || treats like an absent member.
ServerMessages == {"Signed up!"}
ServerDetails == {"Not registered", ""}

SeqsUpTo(S, n) == UNION {[1..k -> S] : k \in 0..n}

\* The participants arrays a response may carry.
ParticipantLists == {SubSeq(Roster, 1, k) : k \in 0..MaxParticipants}

JsonNull == [kind |-> "null"]
Unparseable == [kind |-> "unparseable"]
JsonNumber == [kind |-> "number"]

\* The value of one entry of the catalog object: a well-formed activity, or
\* null (any value whose .participants.length cannot be read behaves alike).
WellFormedDetails ==
    {[kind |-> "activity", description |-> "d", schedule |-> "s",
      max_participants |-> m, participants |-> p] :
        m \in {MaxCapacity}, p \in ParticipantLists}

DetailsValues == WellFormedDetails \cup {JsonNull}

\* Sequences of distinct names: the keys of a parsed object are distinct.
NameSeqs ==
    {ns \in SeqsUpTo(Names, MaxActivities) :
        \A i, j \in 1..Len(ns) : i # j => ns[i] # ns[j]}

\* A parsed JSON object: its entries, in Object.entries order.
JsonObjects ==
    UNION {{[kind |-> "object",
             entries |-> [i \in 1..Len(ns) |-> <<ns[i], ds[i]>>]] :
               ds \in [1..Len(ns) -> DetailsValues]} : ns \in NameSeqs}

\* The values response.json() may resolve to on GET /activities.  Text that
\* is not JSON makes it reject instead; lastEvent records that as Unparseable.
CatalogBodies == JsonObjects \cup {JsonNull, JsonNumber}

\* The bodies POST signup and DELETE unregister may deliver: an object with
\* optional message and detail members, or null.
Absent == [kind |-> "undefined"]
Text(s) == [kind |-> "string", value |-> s]
MutationBodies ==
    {[kind |-> "object", message |-> m, detail |-> d] :
        m \in {Absent} \cup {Text(s) : s \in ServerMessages},
        d \in {Absent} \cup {Text(s) : s \in ServerDetails}}
    \cup {JsonNull}

(* ------------------------------ state ---------------------------------- *)

VARIABLES
    activitiesList,   \* #activities-list: [notice, cards]
    activitySelect,   \* #activity: its options, the placeholder first
    signupForm,       \* #signup-form: the values of its two controls
    messageDiv,       \* #message: [text, className, hidden], and the id of
                      \* the request whose outcome wrote them
    timers,           \* armed setTimeout callbacks
    loads,            \* fetchActivities invocations suspended at an await
    mutations,        \* signup / unregister handlers suspended at an await
    getsIssued,       \* number of GET /activities requests issued
    callsIssued,      \* number of POST / DELETE requests issued
    shown,            \* the GET whose response was rendered last: its
                      \* issue number (0: none yet) and status class
    lastEvent         \* the task the event loop ran last: its inputs and the
                      \* mutating request it sent

vars == <<activitiesList, activitySelect, signupForm, messageDiv, timers,
          loads, mutations, getsIssued, callsIssued, shown, lastEvent>>

\* The markup's first option, which lines 16-19 keep.
PlaceholderOption == [value |-> "", label |-> "placeholder"]

(* --------------------------- fetchActivities --------------------------- *)

\* The delete buttons as they would be if data-email were set from name.
ParticipantRows_EmailFromName(name, participants) ==
    [i \in 1..Len(participants) |->
        [text |-> participants[i],
         button |-> [activity |-> name, email |-> name]]]

\* Lines 68-84: one <li> per participant, each with a delete button that
\* carries data-activity and data-email.
ParticipantRows(name, participants) ==
    [i \in 1..Len(participants) |->
        [text |-> participants[i],
         button |-> [activity |-> name, email |-> participants[i]]]]

\* Line 26 as it would be if the difference were clamped at zero.
SpotsLeft_Clamped(details) ==
    IF details.max_participants > Len(details.participants)
    THEN details.max_participants - Len(details.participants)
    ELSE 0

\* Line 26.
SpotsLeft(details) == details.max_participants - Len(details.participants)

\* Lines 23-94: the card built for one entry.
ActivityCard(name, details) ==
    [title |-> name,
     description |-> details.description,
     schedule |-> details.schedule,
     spots |-> SpotsLeft(details),
     suffix |-> SpotsSuffix,
     rows |-> IF Len(details.participants) > 0
              THEN ParticipantRows(name, details.participants)
              ELSE <<>>,
     placeholder |-> IF Len(details.participants) > 0
                     THEN ""
                     ELSE NoParticipantsText]

\* Lines 98-100.
ActivityOption(name) == [value |-> name, label |-> name]

\* Line 26 throws a TypeError when the entry's value has no participants
\* array to take the length of.
Throws(details) == details.kind # "activity"

\* Lines 22-102: the forEach over the entries, appending to the cleared list
\* and to the select.  An entry that throws ends the loop; what was appended
\* before it stays.
RECURSIVE RenderEntries(_, _, _)
RenderEntries(entries, cards, options) ==
    IF entries = <<>>
    THEN [cards |-> cards, options |-> options, threw |-> FALSE]
    ELSE LET name == Head(entries)[1]
             details == Head(entries)[2]
         IN IF Throws(details)
            THEN [cards |-> cards, options |-> options, threw |-> TRUE]
            ELSE RenderEntries(Tail(entries),
                               Append(cards, ActivityCard(name, details)),
                               Append(options, ActivityOption(name)))

\* Object.entries(activities) at line 22: throws on null, is empty for a
\* number.
EntriesThrows(body) == body.kind = "null"
ObjectEntries(body) == IF body.kind = "object" THEN body.entries ELSE <<>>


\* The list area as the catch block would leave it if it only logged.
FailedList_Untouched == activitiesList

\* The list area after line 104.
FailedList == [notice |-> FailureNotice, cards |-> <<>>]

\* The select as it would be if lines 17-19 were missing.
ClearedSelect_NotCleared == activitySelect

\* Lines 17-19: every option but the first is removed.
ClearedSelect == SubSeq(activitySelect, 1, 1)

\* The continuation as it would be if the catch block put its notice in the
\* list area without removing the cards appended before the throw.
RenderCatalog_PartialStays(body) ==
    LET r == RenderEntries(ObjectEntries(body), <<>>, ClearedSelect)
    IN IF EntriesThrows(body)
       THEN [list |-> FailedList, options |-> ClearedSelect, caught |-> TRUE]
       ELSE IF r.threw
            THEN [list |-> [notice |-> FailureNotice, cards |-> r.cards],
                  options |-> r.options, caught |-> TRUE]
            ELSE [list |-> [notice |-> "", cards |-> r.cards],
                  options |-> r.options, caught |-> FALSE]

\* Lines 13-106, the continuation of fetchActivities once response.json()
\* has resolved to body: the list, the select's options and whether the
\* catch block ran.
RenderCatalog(body) ==
    LET r == RenderEntries(ObjectEntries(body), <<>>, ClearedSelect)
    IN IF EntriesThrows(body)
       THEN [list |-> FailedList, options |-> ClearedSelect, caught |-> TRUE]
       ELSE IF r.threw
            THEN [list |-> FailedList, options |-> r.options, caught |-> TRUE]
            ELSE [list |-> [notice |-> "", cards |-> r.cards],
                  options |-> r.options, caught |-> FALSE]

\* fetchActivities() as it would be with an in-flight guard: a call made
\* while a load is pending issues no request.
CallFetchActivities_Guarded ==
    IF loads = {}
    THEN /\ getsIssued' = getsIssued + 1
         /\ loads' = {[seq |-> getsIssued + 1, pc |-> "fetch", ok |-> FALSE]}
    ELSE UNCHANGED <<getsIssued, loads>>

\* A call of fetchActivities() runs to its first await: GET /activities is
\* issued and the invocation is suspended at line 10.
CallFetchActivities ==
    /\ getsIssued' = getsIssued + 1
    /\ loads' = loads \cup {[seq |-> getsIssued + 1, pc |-> "fetch", ok |-> FALSE]}

\* The catch block as it would be if it called fetchActivities() again.
FetchRejects_Retries(l) ==
    /\ l \in loads /\ l.pc = "fetch"
    /\ getsIssued' = getsIssued + 1
    /\ loads' = (loads \ {l}) \cup
                    {[seq |-> getsIssued + 1, pc |-> "fetch", ok |-> FALSE]}
    /\ activitiesList' = FailedList
    /\ lastEvent' = [op |-> "loadFailed", seq |-> l.seq, ok |-> FALSE,
                     body |-> Unparseable]
    /\ UNCHANGED <<activitySelect, signupForm, messageDiv, timers, mutations,
                   callsIssued, shown>>

\* Line 10 rejects (network failure): the catch block, lines 103-106.
FetchRejects(l) ==
    /\ l \in loads /\ l.pc = "fetch"
    /\ loads' = loads \ {l}
    /\ activitiesList' = FailedList
    /\ lastEvent' = [op |-> "loadFailed", seq |-> l.seq, ok |-> FALSE,
                     body |-> Unparseable]
    /\ UNCHANGED <<activitySelect, signupForm, messageDiv, timers, mutations,
                   getsIssued, callsIssued, shown>>

\* Line 10 resolves with a response of either status class; line 11 awaits
\* its body.  response.ok is not read.
FetchResolves(l, ok) ==
    /\ l \in loads /\ l.pc = "fetch"
    /\ loads' = (loads \ {l}) \cup {[l EXCEPT !.pc = "json", !.ok = ok]}
    /\ lastEvent' = [op |-> "response"]
    /\ UNCHANGED <<activitiesList, activitySelect, signupForm, messageDiv,
                   timers, mutations, getsIssued, callsIssued, shown>>

\* Line 11 rejects (the body is not JSON): the catch block.
JsonRejects(l) ==
    /\ l \in loads /\ l.pc = "json"
    /\ loads' = loads \ {l}
    /\ activitiesList' = FailedList
    /\ lastEvent' = [op |-> "loadFailed", seq |-> l.seq, ok |-> l.ok,
                     body |-> Unparseable]
    /\ UNCHANGED <<activitySelect, signupForm, messageDiv, timers, mutations,
                   getsIssued, callsIssued, shown>>

\* Line 11 resolves: lines 13-102 run, and lines 103-106 if they throw.
\* Removing the options deselects the user's choice.
JsonResolves(l, body) ==
    /\ l \in loads /\ l.pc = "json"
    /\ loads' = loads \ {l}
    /\ LET r == RenderCatalog(body)
       IN /\ activitiesList' = r.list
          /\ activitySelect' = r.options
          /\ shown' = IF r.caught THEN shown ELSE [seq |-> l.seq, ok |-> l.ok]
          /\ lastEvent' = [op |-> IF r.caught THEN "loadFailed" ELSE "loadRendered",
                           seq |-> l.seq, ok |-> l.ok, body |-> body]
    /\ signupForm' = [signupForm EXCEPT !.activity = ""]
    /\ UNCHANGED <<messageDiv, timers, mutations, getsIssued, callsIssued>>

(* ------------------------------ the user ------------------------------- *)

\* The user types into #email.
TypeEmail(e) ==
    /\ signupForm.email # e
    /\ signupForm' = [signupForm EXCEPT !.email = e]
    /\ lastEvent' = [op |-> "input"]
    /\ UNCHANGED <<activitiesList, activitySelect, messageDiv, timers, loads,
                   mutations, getsIssued, callsIssued, shown>>

\* The user picks one of the select's current options.
SelectActivity(i) ==
    /\ i \in 1..Len(activitySelect)
    /\ signupForm.activity # activitySelect[i].value
    /\ signupForm' = [signupForm EXCEPT !.activity = activitySelect[i].value]
    /\ lastEvent' = [op |-> "input"]
    /\ UNCHANGED <<activitiesList, activitySelect, messageDiv, timers, loads,
                   mutations, getsIssued, callsIssued, shown>>

(* ------------------------------ timers --------------------------------- *)

\* setTimeout(hide, delay) called by the handler of request id.  Timers are
\* kept in the order they were armed.
Arm(id, delay) == Append(timers, [owner |-> id, delay |-> delay])

\* Timers run in the order of their deadlines.  Time itself is not kept: the
\* k-th armed timer may be the next to run unless a timer armed before it,
\* with a delay no longer than its own, is still waiting.
MayFire(k) ==
    /\ k \in 1..Len(timers)
    /\ \A h \in 1..(k - 1) : timers[h].delay > timers[k].delay

Without(seq, k) == SubSeq(seq, 1, k - 1) \o SubSeq(seq, k + 1, Len(seq))

\* The callback as it would be if it hid only the message of its own action.
TimerFires_OwnMessageOnly(k) ==
    /\ MayFire(k)
    /\ timers' = Without(timers, k)
    /\ messageDiv' = [messageDiv EXCEPT
                         !.hidden = @ \/ messageDiv.setBy = timers[k].owner]
    /\ lastEvent' = [op |-> "timer", id |-> timers[k].owner]
    /\ UNCHANGED <<activitiesList, activitySelect, signupForm, loads,
                   mutations, getsIssued, callsIssued, shown>>

\* Lines 136-138 and 182-184: the callback adds the class hidden.
TimerFires(k) ==
    /\ MayFire(k)
    /\ timers' = Without(timers, k)
    /\ messageDiv' = [messageDiv EXCEPT !.hidden = TRUE]
    /\ lastEvent' = [op |-> "timer", id |-> timers[k].owner]
    /\ UNCHANGED <<activitiesList, activitySelect, signupForm, loads,
                   mutations, getsIssued, callsIssued, shown>>

(* ----------------------- the two mutating handlers --------------------- *)

\* element.textContent = v: undefined is written as the empty string.
TextContent(v) == IF v.kind = "string" THEN v.value ELSE ""

\* v ?? fallback in place of v || fallback: only undefined falls back.
OrElse_Nullish(v, fallback) ==
    IF v.kind = "string" THEN v.value ELSE fallback

\* v || fallback: undefined and the empty string are falsy.
OrElse(v, fallback) ==
    IF v.kind = "string" /\ v.value # "" THEN v.value ELSE fallback

\* result.message and result.detail throw a TypeError when result is null.
MemberThrows(body) == body.kind = "null"

\* A handler sends its request and is suspended at its await fetch(...),
\* lines 120 and 160.  The closure's activity and email are not read again.
Issue(method) ==
    /\ callsIssued' = callsIssued + 1
    /\ mutations' = mutations \cup
          {[id |-> callsIssued + 1, method |-> method, pc |-> "fetch", ok |-> FALSE]}

\* encodeURIComponent is one-to-one, so the URL of lines 121 and 161 is held
\* as the method, the activity and the email it was built from.
Request(method, activity, email) ==
    [method |-> method, activity |-> activity, email |-> email]

\* Lines 110-125: a click on a delete button whose confirm() is accepted.
ConfirmDelete(button) ==
    /\ Issue("DELETE")
    /\ lastEvent' = [op |-> "click", button |-> button, confirmed |-> TRUE,
                     request |-> <<Request("DELETE", button.activity, button.email)>>]
    /\ UNCHANGED <<activitiesList, activitySelect, signupForm, messageDiv,
                   timers, loads, getsIssued, shown>>

\* handleDelete as it would be without the return of line 116: the request
\* is sent although the confirmation was declined.
DeclineDelete_Proceeds(button) ==
    /\ Issue("DELETE")
    /\ lastEvent' = [op |-> "click", button |-> button, confirmed |-> FALSE,
                     request |-> <<Request("DELETE", button.activity, button.email)>>]
    /\ UNCHANGED <<activitiesList, activitySelect, signupForm, messageDiv,
                   timers, loads, getsIssued, shown>>

\* Lines 110-117: a click on a delete button whose confirm() is declined.
DeclineDelete(button) ==
    /\ lastEvent' = [op |-> "click", button |-> button, confirmed |-> FALSE,
                     request |-> <<>>]
    /\ UNCHANGED <<activitiesList, activitySelect, signupForm, messageDiv,
                   timers, loads, mutations, getsIssued, callsIssued, shown>>

\* The delete buttons on the page: lines 75-80 attach handleDelete to each.
DeleteButton(i, j) == activitiesList.cards[i].rows[j].button

\* handleDelete, lines 110-125; confirm() blocks the event loop, so the
\* click and the answer are one task.
ClickDelete(i, j, answer) ==
    IF answer THEN ConfirmDelete(DeleteButton(i, j))
              ELSE DeclineDelete(DeleteButton(i, j))

\* The submit handler, lines 153-165.
Submit ==
    /\ Issue("POST")
    /\ lastEvent' = [op |-> "submit",
                     request |-> <<Request("POST", signupForm.activity, signupForm.email)>>]
    /\ UNCHANGED <<activitiesList, activitySelect, signupForm, messageDiv,
                   timers, loads, getsIssued, shown>>

\* await fetch(...) resolves with a response; the handler awaits its body
\* (lines 127 and 167).
MutationResponds(m, ok) ==
    /\ m \in mutations /\ m.pc = "fetch"
    /\ mutations' = (mutations \ {m}) \cup {[m EXCEPT !.pc = "json", !.ok = ok]}
    /\ lastEvent' = [op |-> "response"]
    /\ UNCHANGED <<activitiesList, activitySelect, signupForm, messageDiv,
                   timers, loads, getsIssued, callsIssued, shown>>

\* The message area as it would be if a handler wrote the text and left the
\* class of the message shown before.
Message_KeepsKind(id, text, className) ==
    [text |-> text, className |-> messageDiv.className, hidden |-> FALSE,
     setBy |-> id]

\* Lines 131-133, 140-142, 145-147, 171-172, 175-176, 179, 186-188: the text,
\* the class and the removal of the class hidden, written by one handler.
Message(id, text, className) ==
    [text |-> text, className |-> className, hidden |-> FALSE, setBy |-> id]

\* The catch block as it would be if it also blanked the list area.
UnregisterCaught_BlanksList(m) ==
    /\ messageDiv' = Message(m.id, UnregisterNetworkError, "error")
    /\ activitiesList' = FailedList
    /\ UNCHANGED <<activitySelect, signupForm, timers, loads, getsIssued, shown>>

\* Lines 144-149: the catch block of handleDelete.
UnregisterCaught(m) ==
    /\ messageDiv' = Message(m.id, UnregisterNetworkError, "error")
    /\ UNCHANGED <<activitiesList, activitySelect, signupForm, timers, loads,
                   getsIssued, shown>>

\* Lines 129-138.
UnregisterSucceeded(m, body) ==
    /\ messageDiv' = Message(m.id, TextContent(body.message), "success")
    /\ CallFetchActivities
    /\ timers' = Arm(m.id, UnregisterHideDelay)
    /\ UNCHANGED <<activitiesList, activitySelect, signupForm, shown>>

\* Lines 139-143.
UnregisterRefused(m, body) ==
    /\ messageDiv' = Message(m.id, OrElse(body.detail, UnregisterFallback), "error")
    /\ UNCHANGED <<activitiesList, activitySelect, signupForm, timers, loads,
                   getsIssued, shown>>

\* Lines 185-190: the catch block of the submit handler.
SignupCaught(m) ==
    /\ messageDiv' = Message(m.id, SignupNetworkError, "error")
    /\ UNCHANGED <<activitiesList, activitySelect, signupForm, timers, loads,
                   getsIssued, shown>>

\* signupForm.reset(), line 172.
ResetForm == [email |-> "", activity |-> ""]

\* Lines 169-173 and 179-184.
SignupSucceeded(m, body) ==
    /\ messageDiv' = Message(m.id, TextContent(body.message), "success")
    /\ signupForm' = ResetForm
    /\ CallFetchActivities
    /\ timers' = Arm(m.id, SignupHideDelay)
    /\ UNCHANGED <<activitiesList, activitySelect, shown>>

\* The non-2xx branch as it would be if lines 172-173 stood after the
\* if/else: the form is reset and the catalog reloaded on every response.
SignupRefused_ResetsAndReloads(m, body) ==
    /\ messageDiv' = Message(m.id, OrElse(body.detail, SignupFallback), "error")
    /\ signupForm' = ResetForm
    /\ CallFetchActivities
    /\ timers' = Arm(m.id, SignupHideDelay)
    /\ UNCHANGED <<activitiesList, activitySelect, shown>>

\* Lines 174-177 and 179-184.
SignupRefused(m, body) ==
    /\ messageDiv' = Message(m.id, OrElse(body.detail, SignupFallback), "error")
    /\ timers' = Arm(m.id, SignupHideDelay)
    /\ UNCHANGED <<activitiesList, activitySelect, signupForm, loads,
                   getsIssued, shown>>

Caught(m) == IF m.method = "POST" THEN SignupCaught(m) ELSE UnregisterCaught(m)

\* await fetch(...) rejects (network failure) or await response.json()
\* rejects (the body is not JSON): the handler's catch block.
MutationRejects(m) ==
    /\ m \in mutations
    /\ mutations' = mutations \ {m}
    /\ Caught(m)
    /\ lastEvent' = [op |-> "outcome", id |-> m.id, method |-> m.method,
                     pc |-> m.pc, ok |-> m.ok, body |-> Unparseable]
    /\ UNCHANGED callsIssued

\* await response.json() resolves to body: lines 129-143 or 169-184, and the
\* catch block when reading a member of null throws.
MutationJsonResolves(m, body) ==
    /\ m \in mutations /\ m.pc = "json"
    /\ mutations' = mutations \ {m}
    /\ IF MemberThrows(body) THEN Caught(m)
       ELSE IF m.method = "POST"
            THEN IF m.ok THEN SignupSucceeded(m, body) ELSE SignupRefused(m, body)
            ELSE IF m.ok THEN UnregisterSucceeded(m, body)
                         ELSE UnregisterRefused(m, body)
    /\ lastEvent' = [op |-> "outcome", id |-> m.id, method |-> m.method,
                     pc |-> m.pc, ok |-> m.ok, body |-> body]
    /\ UNCHANGED callsIssued

(* --------------------------- the event loop ---------------------------- *)

\* The page once the DOMContentLoaded handler has run (lines 1-5, 194): the
\* markup's loading notice, placeholder option, empty form and hidden
\* message, and the first fetchActivities() suspended at line 10.
Init ==
    /\ activitiesList = [notice |-> LoadingNotice, cards |-> <<>>]
    /\ activitySelect = <<PlaceholderOption>>
    /\ signupForm = ResetForm
    /\ messageDiv = [text |-> "", className |-> "", hidden |-> TRUE, setBy |-> 0]
    /\ timers = <<>>
    /\ loads = {[seq |-> 1, pc |-> "fetch", ok |-> FALSE]}
    /\ mutations = {}
    /\ getsIssued = 1
    /\ callsIssued = 0
    /\ shown = [seq |-> 0, ok |-> FALSE]
    /\ lastEvent = [op |-> "DOMContentLoaded"]

\* One task of the event loop.  The server's catalog bodies are drawn from
\* bodies; the user starts at most calls mutating requests.
Step(bodies, calls) ==
    \/ \E l \in loads : FetchRejects(l)
    \/ \E l \in loads, ok \in BOOLEAN : FetchResolves(l, ok)
    \/ \E l \in loads : JsonRejects(l)
    \/ \E l \in loads, body \in bodies : JsonResolves(l, body)
    \/ \E e \in FormEmails \cup {""} : TypeEmail(e)
    \/ \E i \in 1..Len(activitySelect) : SelectActivity(i)
    \/ callsIssued < calls /\ Submit
    \/ \E i \in 1..Len(activitiesList.cards) :
          \E j \in 1..Len(activitiesList.cards[i].rows), answer \in BOOLEAN :
             /\ answer => callsIssued < calls
             /\ ClickDelete(i, j, answer)
    \/ \E m \in mutations, ok \in BOOLEAN : MutationResponds(m, ok)
    \/ \E m \in mutations : MutationRejects(m)
    \/ \E m \in mutations, body \in MutationBodies : MutationJsonResolves(m, body)
    \/ \E k \in 1..Len(timers) : TimerFires(k)

Next == Step(CatalogBodies, MaxMutations)

Spec == Init /\ [][Next]_vars

\* Two mutating requests in one run, so that two handlers, their reloads and
\* their hide timers overlap.  The server always sends the same one-activity
\* catalog.
RaceMutations == 2
RaceBodies ==
    {[kind |-> "object",
      entries |-> <<<<NamePool[1],
                      [kind |-> "activity", description |-> "d",
                       schedule |-> "s", max_participants |-> 2,
                       participants |-> <<Roster[1]>>]>>>>]}

NextRace == Step(RaceBodies, RaceMutations)

SpecRace == Init /\ [][NextRace]_vars

(* ------------------------------ claims --------------------------------- *)

\* The task just run ended a catalog load: it rendered, or ran the catch block.
LoadEnded == lastEvent.op \in {"loadRendered", "loadFailed"}
\* The entries of the response the task just run was given.
Entries == lastEvent.body.entries
Cards == activitiesList.cards

\* C1 (as claimed): the response of an earlier-issued GET /activities never
\* replaces the rendering of a later-issued one.
C1_NoStaleOverwrite ==
    [][(/\ lastEvent'.op = "loadRendered" /\ lastEvent'.ok
        /\ shown.ok /\ activitiesList.notice = ""
        /\ activitiesList' # activitiesList)
          => lastEvent'.seq >= shown.seq]_vars

\* C2 (as claimed): a load that fails while a snapshot is displayed leaves
\* the displayed cards unchanged, and the failure notice is shown only when
\* no snapshot was ever rendered.
C2_FailedFetchKeepsSnapshot ==
    [][/\ (lastEvent'.op = "loadFailed" /\ activitiesList.notice = "")
             => activitiesList' = activitiesList
       /\ activitiesList'.notice = FailureNotice => shown'.seq = 0]_vars

\* C2 (amended): a load that fails (network failure, a body that is not JSON,
\* or a body whose rendering throws) leaves the failure notice and no card in
\* the list area, whether or not a snapshot was displayed before.
C2_FailedFetchShowsNotice ==
    lastEvent.op = "loadFailed" =>
        /\ activitiesList.notice = FailureNotice
        /\ activitiesList.cards = <<>>

\* C2 witness: a load has failed after an earlier load had rendered a snapshot.
C2_Witness ==
    /\ lastEvent.op = "loadFailed"
    /\ shown.seq > 0
    /\ lastEvent.seq > shown.seq

\* C3 (as claimed): a non-2xx response, and a body that is not JSON, take
\* the failure outcome and render no card.
C3_Non2xxIsFailure ==
    (LoadEnded /\ (~lastEvent.ok \/ lastEvent.body = Unparseable)) =>
        /\ lastEvent.op = "loadFailed"
        /\ activitiesList = FailedList

\* C4: after a load that rendered a catalog of N entries there are exactly N
\* cards and, after the placeholder, exactly N options, both in the order of
\* the entries, each option's value and label being the activity's name.
C4_CardsAndOptionsMatchCatalog ==
    lastEvent.op = "loadRendered" =>
        LET es == ObjectEntries(lastEvent.body)
        IN /\ activitiesList.notice = ""
           /\ Len(Cards) = Len(es)
           /\ Len(activitySelect) = Len(es) + 1
           /\ activitySelect[1] = PlaceholderOption
           /\ \A i \in 1..Len(es) :
                 /\ Cards[i].title = es[i][1]
                 /\ activitySelect[i + 1].value = es[i][1]
                 /\ activitySelect[i + 1].label = es[i][1]

\* C4 witness: the second load of the run has rendered a catalog of two
\* activities.
C4_Witness ==
    /\ lastEvent.op = "loadRendered"
    /\ lastEvent.seq = 2
    /\ loads = {}
    /\ Len(ObjectEntries(lastEvent.body)) = 2

\* A signup ended by a 2xx response with an object body.
SignupSuccess(e) ==
    /\ e.op = "outcome" /\ e.method = "POST"
    /\ e.pc = "json" /\ e.ok /\ e.body.kind = "object"
\* A signup ended by a network failure or by a non-2xx response.
SignupFailure(e) ==
    /\ e.op = "outcome" /\ e.method = "POST"
    /\ (e.pc = "fetch" \/ ~e.ok)

\* C5: the task that ends a successful signup resets the form and starts
\* exactly one catalog load; the task that ends a failed signup leaves the
\* form as it is and starts none.
C5_SignupReloadsOnceOnSuccessOnly ==
    [][/\ SignupSuccess(lastEvent') =>
             /\ signupForm' = ResetForm
             /\ getsIssued' = getsIssued + 1
             /\ \E l \in loads' : l.seq = getsIssued' /\ l.pc = "fetch"
                                  /\ loads' = loads \cup {l} /\ l \notin loads
       /\ SignupFailure(lastEvent') =>
             /\ signupForm' = signupForm
             /\ getsIssued' = getsIssued
             /\ loads' = loads]_vars

\* C5 witness: a signup has succeeded while the first load had already
\* ended, and its reload is the only load in flight.
C5_Witness ==
    /\ SignupSuccess(lastEvent)
    /\ getsIssued = 2
    /\ Cardinality(loads) = 1

\* C6: a click on a delete button whose confirmation is declined sends no
\* request and changes neither the message, the timers nor the catalog.
C6_DeclinedDeleteChangesNothing ==
    [][(lastEvent'.op = "click" /\ ~lastEvent'.confirmed) =>
          /\ lastEvent'.request = <<>>
          /\ UNCHANGED <<messageDiv, timers, activitiesList, activitySelect,
                         signupForm, loads, mutations, getsIssued, callsIssued>>]_vars

\* C6 witness: a confirmation has been declined while a message was showing
\* and its hide timer was armed.
C6_Witness ==
    /\ lastEvent.op = "click" /\ ~lastEvent.confirmed
    /\ ~messageDiv.hidden
    /\ timers # <<>>

\* C7 (as claimed): after a signup ends, by a 2xx response, a non-2xx
\* response or a network failure, the message is visible and a 5000 ms
\* hide timer is armed for it.
C7_SignupAlwaysArmsTimer ==
    (SignupSuccess(lastEvent) \/ SignupFailure(lastEvent)) =>
        /\ ~messageDiv.hidden
        /\ \E k \in 1..Len(timers) :
              timers[k] = [owner |-> lastEvent.id, delay |-> SignupHideDelay]

\* The fallback text of a handler's non-2xx branch.
FallbackOf(method) == IF method = "POST" THEN SignupFallback ELSE UnregisterFallback

\* What C8 says of a 2xx response, and that the message is visible.
C8_SuccessAndVisible ==
    /\ (lastEvent.ok /\ lastEvent.body.message.kind = "string") =>
          /\ messageDiv.text = lastEvent.body.message.value
          /\ messageDiv.className = "success"
    /\ ~messageDiv.hidden

\* The task just run ended a signup or unregister whose response had an
\* object body.
AnsweredOutcome ==
    lastEvent.op = "outcome" /\ lastEvent.pc = "json" /\ lastEvent.body.kind = "object"

\* C8 (as claimed): a non-2xx response with detail d shows d, and one
\* without detail shows the fallback, both as errors.
C8_DetailAlwaysShown ==
    AnsweredOutcome =>
        /\ C8_SuccessAndVisible
        /\ ~lastEvent.ok =>
              /\ messageDiv.className = "error"
              /\ messageDiv.text =
                    IF lastEvent.body.detail.kind = "string"
                    THEN lastEvent.body.detail.value
                    ELSE FallbackOf(lastEvent.method)

\* C8 (amended): a non-2xx response with a non-empty detail d shows d, and
\* one with no detail or an empty one shows the fallback, both as errors; a
\* 2xx response with message m shows m as success; the message is visible.
C8_NonEmptyDetailShown ==
    AnsweredOutcome =>
        /\ C8_SuccessAndVisible
        /\ ~lastEvent.ok =>
              /\ messageDiv.className = "error"
              /\ messageDiv.text =
                    IF /\ lastEvent.body.detail.kind = "string"
                       /\ lastEvent.body.detail.value # ""
                    THEN lastEvent.body.detail.value
                    ELSE FallbackOf(lastEvent.method)

\* C8 witness: an unregister was refused with a detail, which is showing.
C8_Witness ==
    /\ AnsweredOutcome
    /\ lastEvent.method = "DELETE" /\ ~lastEvent.ok
    /\ lastEvent.body.detail = Text("Not registered")
    /\ messageDiv.text = "Not registered"

\* C9: every card of a rendered catalog shows max_participants minus the
\* length of participants, negative when there are more participants.
C9_SpotsLeftIsDifference ==
    lastEvent.op = "loadRendered" =>
        \A i \in 1..Len(Cards) :
            Cards[i].spots = Entries[i][2].max_participants
                                - Len(Entries[i][2].participants)

\* C9 witness: a rendered card shows a negative number of spots for an
\* activity in whose participants one email occurs twice.
C9_Witness ==
    /\ lastEvent.op = "loadRendered"
    /\ \E i \in 1..Len(Cards) :
          /\ Cards[i].spots < 0
          /\ \E j, k \in 1..Len(Entries[i][2].participants) :
                j # k /\ Entries[i][2].participants[j] = Entries[i][2].participants[k]

\* C10: a rendered activity without participants shows the placeholder text
\* and no delete button; one with k participants shows k delete buttons in
\* the participants' order, each carrying the activity's name and that
\* participant's email; a confirmed click on a button of the page sends one
\* DELETE for that button's activity and email.
C10_DeleteControls ==
    /\ lastEvent.op = "loadRendered" =>
          \A i \in 1..Len(Cards) :
              LET p == Entries[i][2].participants
              IN /\ Len(Cards[i].rows) = Len(p)
                 /\ Len(p) = 0 <=> Cards[i].placeholder = NoParticipantsText
                 /\ \A j \in 1..Len(p) :
                       /\ Cards[i].rows[j].text = p[j]
                       /\ Cards[i].rows[j].button =
                             [activity |-> Entries[i][1], email |-> p[j]]
    /\ (lastEvent.op = "click" /\ lastEvent.confirmed) =>
          /\ \E i \in 1..Len(Cards) : \E j \in 1..Len(Cards[i].rows) :
                Cards[i].rows[j].button = lastEvent.button
          /\ lastEvent.request =
                <<[method |-> "DELETE", activity |-> lastEvent.button.activity,
                   email |-> lastEvent.button.email]>>
          /\ \E m \in mutations :
                m = [id |-> callsIssued, method |-> "DELETE", pc |-> "fetch",
                     ok |-> FALSE]

\* C10 witness: the user has confirmed a click on the second of two delete
\* buttons of an activity.
C10_Witness ==
    /\ lastEvent.op = "click" /\ lastEvent.confirmed
    /\ \E i \in 1..Len(Cards) :
          /\ Len(Cards[i].rows) >= 2
          /\ Cards[i].rows[2].button = lastEvent.button
          /\ Cards[i].rows[1].button # lastEvent.button

\* A signup or an unregister ended by a 2xx response with an object body.
MutationSuccess(e) ==
    /\ e.op = "outcome"
    /\ e.pc = "json" /\ e.ok /\ e.body.kind = "object"
\* A signup or an unregister ended by a network failure or a non-2xx response.
MutationFailure(e) ==
    /\ e.op = "outcome"
    /\ (e.pc = "fetch" \/ ~e.ok)

\* C11: the task that ends a failed load leaves the failure notice in the
\* list area and issues no GET /activities; a GET is issued only by the task
\* that ends a successful signup or unregister.
C11_FailedLoadIsNotRetried ==
    [][/\ lastEvent'.op = "loadFailed" =>
             /\ activitiesList'.notice = FailureNotice
             /\ activitiesList'.cards = <<>>
             /\ getsIssued' = getsIssued
             /\ loads' \subseteq loads
       /\ getsIssued' # getsIssued => MutationSuccess(lastEvent')]_vars

\* C11 witness: a load has failed and no load is in flight.
C11_Witness ==
    /\ lastEvent.op = "loadFailed"
    /\ loads = {}
    /\ activitiesList.notice = FailureNotice

\* C12 (as claimed): after an unregister ends by a non-2xx response or a
\* network failure, an error message is visible and a 3000 ms hide timer is
\* armed for it, as after a successful one.
C12_FailedUnregisterArmsTimer ==
    (MutationFailure(lastEvent) /\ lastEvent.method = "DELETE") =>
        /\ messageDiv.className = "error"
        /\ ~messageDiv.hidden
        /\ \E k \in 1..Len(timers) :
              timers[k] = [owner |-> lastEvent.id, delay |-> UnregisterHideDelay]

\* C13 (as claimed): a visible message is always on its way to being hidden.
\* Only a timer expiry hides the message, so whenever the message is visible
\* a hide timer is pending.
C13_VisibleMessageHasHideTimer ==
    ~messageDiv.hidden => timers # <<>>

\* C14: a hide timer hides whatever message is displayed when it expires,
\* whichever action displayed it; so the timer of an earlier action can hide
\* the message of a later one (the witness).
C14_AnyTimerHidesTheMessage ==
    [][lastEvent'.op = "timer" => messageDiv'.hidden]_vars

\* C14 witness: the timer of action A has just expired and hidden the
\* message set by the later action B, whose own timer is still pending.
C14_Witness ==
    /\ lastEvent.op = "timer"
    /\ lastEvent.id < messageDiv.setBy
    /\ messageDiv.hidden
    /\ \E k \in 1..Len(timers) : timers[k].owner = messageDiv.setBy

\* C15: the page load issues GET /activities number 1, and from then on
\* every task that ends a successful signup or unregister issues exactly one
\* more, whatever is in flight, and no other task issues any; so the number
\* of GETs issued is 1 plus the number of successful mutations.
C15_OneGetPerSuccessfulMutation ==
    /\ getsIssued = 1
    /\ [][getsIssued' = getsIssued + (IF MutationSuccess(lastEvent') THEN 1 ELSE 0)]_vars

\* C15 witness: the second of two mutations has succeeded before the reload
\* of the first has completed; both reloads are in flight.
C15_Witness ==
    /\ MutationSuccess(lastEvent)
    /\ getsIssued = 3
    /\ \E l \in loads : l.seq = 2
    /\ \E l \in loads : l.seq = 3

\* C16: the task that ends a failed signup or unregister leaves the rendered
\* list, the selection control's options, the form and the catalog loads as
\* they are; what it changes is the message area.
C16_FailedMutationKeepsList ==
    [][MutationFailure(lastEvent') =>
          /\ UNCHANGED <<activitiesList, activitySelect, signupForm, loads,
                         getsIssued, shown>>
          /\ ~messageDiv'.hidden
          /\ messageDiv'.className = "error"]_vars

\* C16 witness: an unregister has failed while cards and options were
\* displayed, and they are displayed still.
C16_Witness ==
    /\ MutationFailure(lastEvent)
    /\ lastEvent.method = "DELETE"
    /\ Len(activitiesList.cards) > 0
    /\ Len(activitySelect) > 1
    /\ messageDiv.className = "error"

\* C17: the list area changes only in the task that ends a catalog load, and
\* that task leaves in it either one card for every entry of its own
\* response, in order and with no notice, or the failure notice and no card;
\* so between tasks the cards are never part of a response nor cards of two.
C17_ListIsOneWholeResponse ==
    [][activitiesList' # activitiesList =>
          \/ /\ lastEvent'.op = "loadRendered"
             /\ activitiesList'.notice = ""
             /\ LET es == ObjectEntries(lastEvent'.body)
                IN /\ Len(activitiesList'.cards) = Len(es)
                   /\ \A i \in 1..Len(es) :
                         activitiesList'.cards[i] = ActivityCard(es[i][1], es[i][2])
          \/ /\ lastEvent'.op = "loadFailed"
             /\ activitiesList' = FailedList]_vars

\* C17 witness: one load has rendered the two cards of its response while
\* another load is still in flight.
C17_Witness ==
    /\ lastEvent.op = "loadRendered"
    /\ loads # {}
    /\ Len(ObjectEntries(lastEvent.body)) = 2
    /\ Len(Cards) = 2

\* C18 (as claimed): in every state the options after the placeholder are
\* the names of the displayed cards, in the same order; so when the list
\* area shows the failure notice there is no option but the placeholder.
C18_OptionsAreTheDisplayedCards ==
    /\ Len(activitySelect) = Len(Cards) + 1
    /\ activitySelect[1] = PlaceholderOption
    /\ \A i \in 1..Len(Cards) :
          activitySelect[i + 1] = ActivityOption(Cards[i].title)

\* C19: the task that ends a signup or an unregister writes the text and the
\* kind together, from its own outcome: kind success with the 2xx response's
\* message, or kind error with an error text; a timer expiry only hides the
\* message; no other task changes the message area.
C19_TextAndKindFromOneOutcome ==
    [][/\ lastEvent'.op = "outcome" =>
             /\ messageDiv'.setBy = lastEvent'.id
             /\ ~messageDiv'.hidden
             /\ IF MutationSuccess(lastEvent')
                THEN /\ messageDiv'.className = "success"
                     /\ messageDiv'.text = TextContent(lastEvent'.body.message)
                ELSE /\ messageDiv'.className = "error"
                     /\ messageDiv'.text \in
                           {SignupFallback, SignupNetworkError,
                            UnregisterFallback, UnregisterNetworkError}
                              \cup ServerDetails
       /\ lastEvent'.op = "timer" =>
             messageDiv' = [messageDiv EXCEPT !.hidden = TRUE]
       /\ lastEvent'.op \notin {"outcome", "timer"} =>
             messageDiv' = messageDiv]_vars

\* C19 witness: of two overlapping actions the one that ended last has
\* failed; its error text and kind are displayed while the hide timer of the
\* other action is still pending.
C19_Witness ==
    /\ MutationFailure(lastEvent)
    /\ messageDiv.setBy = lastEvent.id
    /\ messageDiv.className = "error"
    /\ \E k \in 1..Len(timers) : timers[k].owner # lastEvent.id

====
